---------------------------- MODULE Spec2Model ----------------------------
(***************************************************************************)
(* A model of GetbankCode.py: capture_and_ocr (one run: configuration,     *)
(* window lookup, four region captures, four preprocess-and-recognize      *)
(* calls, text normalization, output) and _preprocess_and_ocr (crop,       *)
(* scale with a width clamp, resize, recognition).                         *)
(*                                                                         *)
(* Texts are sequences of characters; a character is a one-token string.   *)
(* "NL" is the line feed, "FWCOLON" the full-width colon U+FF1A, "SUP2"    *)
(* the superscript two U+00B2 (str.isdigit is true of it), "SP" the space. *)
(* Python's float arithmetic (IEEE 754 binary64, round to nearest even)    *)
(* is computed exactly, in integers.                                       *)
(***************************************************************************)
EXTENDS Integers, Sequences, FiniteSets, TLC

VARIABLES
    pc,                 \* position of capture_and_ocr
    config_file,        \* "unknown" | "present" | "missing"  (config.ini)
    config_keys,        \* the required keys config.ini holds
    regions,            \* region name -> configured rectangle string or "None"
    preprocess_settings,\* region name -> crop settings, for the sections present
    window,             \* "unknown" | "found" | "none"
    grab_result,        \* region name -> "pending" | "skipped" | "ok" | "raised"
    captured_images,    \* region name -> shape <<h, w>> of the captured image
    ocr_results,        \* region name -> raw text
    ocr_raised,         \* regions whose _preprocess_and_ocr call raised
    idx,                \* position in the capture loop, then in the four OCR blocks
    corrections,        \* the [Corrections] section as written: <<wrong, correct>> pairs
    fields,             \* <<bank_code, bank_name, branch_code, branch_name>>
    joined,             \* ocr_text as assembled at line 184
    ocr_text,           \* ocr_text after the corrections
    final_text,         \* final_text of line 195
    output,             \* what was written to the file and printed: "none" or <<text>>
    ppc,                \* position of _preprocess_and_ocr
    h, w,               \* gray_image.shape
    scaled_w, scaled_h, \* lines 33-34
    final_h, final_w    \* lines 37-41

runVars == <<pc, config_file, config_keys, regions, preprocess_settings, window,
             grab_result, captured_images, ocr_results, ocr_raised, idx>>
textVars == <<corrections, fields, joined, ocr_text, final_text, output>>
preVars == <<ppc, h, w, scaled_w, scaled_h, final_h, final_w>>
vars == <<runVars, textVars, preVars>>

---------------------------------------------------------------------------
(* _preprocess_and_ocr: the geometry of lines 21-43.                       *)

target_h == 300
max_w == 4000

\* Bits of the fraction of a binary64 float.
MantissaBits == 52

\* Bounds of the images and crop margins explored.
MaxH == 301
MaxW == 22
MaxCrop == 1
\* One very wide image: its clamped height computes to zero.
WideW == 4001

RECURSIVE FloorLog2(_)
FloorLog2(n) == IF n < 2 THEN 0 ELSE 1 + FloorLog2(n \div 2)

RECURSIVE NegExponent(_, _, _)
NegExponent(c, b, k) == IF c * 2^k >= b THEN k ELSE NegExponent(c, b, k + 1)

\* The binary exponent e of the quotient c / b: 2^e <= c/b < 2^(e+1).
Exponent(c, b) == IF c >= b THEN FloorLog2(c \div b) ELSE 0 - NegExponent(c, b, 1)

RECURSIVE DoubleMod(_, _, _)
DoubleMod(r, n, m) == IF n = 0 THEN r % m ELSE DoubleMod((2 * r) % m, n - 1, m)

\* c / b as a float is m * 2^(e-52) with b*m = c*2^(52-e) + QuotientError(c, b):
\* the signed rounding error of the division, scaled by b * 2^(52-e).
QuotientError(c, b) ==
    LET n == MantissaBits - Exponent(c, b)
        R == DoubleMod(c, n, b)
        odd == DoubleMod(c, n, 2 * b) >= b
    IN  IF 2 * R < b THEN 0 - R
        ELSE IF 2 * R > b THEN b - R
        ELSE IF odd THEN b - R ELSE 0 - R

\* A variant that rounds the exact product to the nearest integer.
FloatScaleRound(a, c, b) == (2 * a * c + b) \div (2 * b)

\* int(a * (c / b)) for integers a >= 0, b > 0, c > 0: the float quotient, the
\* float product, then truncation. The product is the exact quotient a*c/b plus
\* a relative error below 2^-52, so its truncation is floor(a*c/b) unless the
\* quotient is an integer N and the product rounds to a float below N.
FloatScale(a, c, b) ==
    LET T == a * c
        N == T \div b
        D == QuotientError(c, b)
    IN  IF T % b # 0 THEN N
        ELSE IF D >= 0 \/ N = 0 THEN N
        ELSE LET k == FloorLog2(N) - Exponent(c, b)
                 half == IF N = 2^FloorLog2(N) THEN 4 ELSE 2
             IN  IF half * a * (0 - D) <= b * 2^k THEN N ELSE N - 1


\* The length of seq[start:stop] for a sequence of n elements (Python slicing:
\* a negative index counts from the end, an index out of range is clamped).
SliceIndex(i, n) == IF i < 0 THEN (IF i + n < 0 THEN 0 ELSE i + n)
                    ELSE (IF i > n THEN n ELSE i)

SliceLen(start, stop, n) ==
    LET d == SliceIndex(stop, n) - SliceIndex(start, n) IN IF d < 0 THEN 0 ELSE d

\* Line 23: gray_image[top:h-bottom, left:w-right]; the shape <<h, w>> it leaves.
CropShape(ih, iw, crop) ==
    << SliceLen(crop.top, ih - crop.bottom, ih),
       SliceLen(crop.left, iw - crop.right, iw) >>

\* A variant of scaled_w that rounds instead of truncating.
ScaledWRounded(ch, cw) == FloatScaleRound(cw, target_h, ch)

\* Lines 30, 33, 34: scale = target_h / h; int(w * scale); int(h * scale).
ScaledW(ch, cw) == FloatScale(cw, target_h, ch)

ScaledH(ch) == FloatScale(ch, target_h, ch)

\* A variant without the width limit.
FinalSizeNoClamp(sh, sw) == <<sh, sw>>

\* Lines 37-41: <<final_h, final_w>>.
FinalSize(sh, sw) ==
    IF sw > max_w THEN <<FloatScale(sh, max_w, sw), max_w>> ELSE <<sh, sw>>

\* Line 43: cv2.resize fails its assertions on an empty source or target size.
ResizeRaises(fh, fw) == fh <= 0 \/ fw <= 0

CropMargins == (0 - MaxCrop)..MaxCrop
CropSettings == [top : CropMargins, bottom : CropMargins,
                 left : CropMargins, right : CropMargins]
Widths == (1..MaxW) \cup {WideW}

\* Lines 16-26: the call with a non-null image of shape <<ih, iw>>, cropped.
PreCall ==
    /\ ppc = "call"
    /\ \E ih \in 1..MaxH, iw \in Widths, crop \in CropSettings :
          /\ h' = CropShape(ih, iw, crop)[1]
          /\ w' = CropShape(ih, iw, crop)[2]
    /\ ppc' = "cropped"
    /\ UNCHANGED <<scaled_w, scaled_h, final_h, final_w, runVars, textVars>>

\* Line 29: a cropped image of height zero returns "" at once.
PreReturnEmpty ==
    /\ ppc = "cropped"
    /\ h = 0
    /\ ppc' = "returned_empty"
    /\ UNCHANGED <<h, w, scaled_w, scaled_h, final_h, final_w, runVars, textVars>>

\* Lines 30-41.
PreScale ==
    /\ ppc = "cropped"
    /\ h # 0
    /\ scaled_w' = ScaledW(h, w)
    /\ scaled_h' = ScaledH(h)
    /\ final_h' = FinalSize(ScaledH(h), ScaledW(h, w))[1]
    /\ final_w' = FinalSize(ScaledH(h), ScaledW(h, w))[2]
    /\ ppc' = "scaled"
    /\ UNCHANGED <<h, w, runVars, textVars>>

\* Line 43, when cv2.resize raises.
PreResizeRaises ==
    /\ ppc = "scaled"
    /\ ResizeRaises(final_h, final_w)
    /\ ppc' = "resize_raised"
    /\ UNCHANGED <<h, w, scaled_w, scaled_h, final_h, final_w, runVars, textVars>>

\* Line 43, when it returns processed_image.
PreResize ==
    /\ ppc = "scaled"
    /\ ~ResizeRaises(final_h, final_w)
    /\ ppc' = "resized"
    /\ UNCHANGED <<h, w, scaled_w, scaled_h, final_h, final_w, runVars, textVars>>

\* Lines 45-61: blur, threshold and opening keep the shape; the engine returns
\* a text or raises (it is not installed at tesseract_cmd).
PreRecognize ==
    /\ ppc = "resized"
    /\ \E ok \in BOOLEAN : ppc' = IF ok THEN "returned_text" ELSE "engine_raised"
    /\ UNCHANGED <<h, w, scaled_w, scaled_h, final_h, final_w, runVars, textVars>>

NextPre ==
    \/ PreCall
    \/ PreReturnEmpty
    \/ PreScale
    \/ PreResizeRaises
    \/ PreResize
    \/ PreRecognize

InitPre ==
    /\ ppc = "call"
    /\ h = 0 /\ w = 0
    /\ scaled_w = 0 /\ scaled_h = 0 /\ final_h = 0 /\ final_w = 0
    /\ pc = "idle"
    /\ config_file = "unknown" /\ config_keys = {}
    /\ regions = <<>> /\ preprocess_settings = <<>>
    /\ window = "unknown"
    /\ grab_result = <<>> /\ captured_images = <<>>
    /\ ocr_results = <<>> /\ ocr_raised = {} /\ idx = 0
    /\ corrections = <<>> /\ fields = <<>> /\ joined = <<>>
    /\ ocr_text = <<>> /\ final_text = <<>> /\ output = "none"

SpecPre == InitPre /\ [][NextPre]_vars

---------------------------------------------------------------------------
(* Text: the string operations of lines 179-195.                           *)

\* str.isdigit: the ASCII digits and the other characters of Unicode's digit
\* classes, here the superscript two.
AsciiDigits == {"0", "1", "2", "3", "4", "5", "6", "7", "8", "9"}

IsDigit(c) == c \in AsciiDigits \cup {"SUP2"}

\* str.isspace, the characters str.strip() removes.
IsSpace(c) == c \in {"SP", "NL", "CR", "TAB", "FF"}

\* The line boundaries of str.splitlines.
IsLineBreak(c) == c \in {"NL", "CR", "FF"}

\* "".join(filter(str.isdigit, text))
DigitsOnly(text) == SelectSeq(text, IsDigit)

RECURSIVE LStrip(_)
LStrip(text) ==
    IF text # <<>> /\ IsSpace(Head(text)) THEN LStrip(Tail(text)) ELSE text

RECURSIVE RStrip(_)
RStrip(text) ==
    IF text # <<>> /\ IsSpace(text[Len(text)])
    THEN RStrip(SubSeq(text, 1, Len(text) - 1)) ELSE text

\* A variant that removes one whitespace character at each end.
StripOnce(text) ==
    LET l == IF text # <<>> /\ IsSpace(Head(text)) THEN Tail(text) ELSE text
    IN  IF l # <<>> /\ IsSpace(l[Len(l)]) THEN SubSeq(l, 1, Len(l) - 1) ELSE l

\* text.strip()
Strip(text) == RStrip(LStrip(text))

Sep == <<"FWCOLON">>

\* Line 184: the f-string.
JoinFields(f) == f[1] \o Sep \o f[2] \o Sep \o f[3] \o Sep \o f[4]

\* configparser's optionxform: option names are lower-cased when read.
Lower(c) ==
    CASE c = "A" -> "a" [] c = "B" -> "b" [] c = "C" -> "c"
      [] c = "X" -> "x" [] c = "Y" -> "y" [] OTHER -> c

OptionXform(key) == [i \in 1..Len(key) |-> Lower(key[i])]

\* config.items('Corrections'): the pairs in file order, as the parser holds them.
ConfigItems(table) ==
    [i \in 1..Len(table) |-> <<OptionXform(table[i][1]), table[i][2]>>]

IsPrefix(p, text) == Len(p) <= Len(text) /\ SubSeq(text, 1, Len(p)) = p

\* text.replace(old, new), old non-empty: every occurrence, left to right,
\* without rescanning what was inserted.
RECURSIVE Replace(_, _, _)
Replace(text, old, new) ==
    IF text = <<>> THEN <<>>
    ELSE IF IsPrefix(old, text)
         THEN new \o Replace(SubSeq(text, Len(old) + 1, Len(text)), old, new)
         ELSE <<Head(text)>> \o Replace(Tail(text), old, new)

\* Lines 189-190: the loop over the pairs.
RECURSIVE ApplyPairs(_, _)
ApplyPairs(text, items) ==
    IF items = <<>> THEN text
    ELSE ApplyPairs(Replace(text, items[1][1], items[1][2]), Tail(items))

\* Lines 187-190.
ApplyCorrections(text, table) == ApplyPairs(text, ConfigItems(table))

\* text.splitlines(): no empty last line after a final line break, and
\* "\r\n" is one boundary.
RECURSIVE SplitLinesFrom(_, _, _, _)
SplitLinesFrom(text, i, cur, acc) ==
    IF i > Len(text) THEN (IF cur = <<>> THEN acc ELSE Append(acc, cur))
    ELSE IF text[i] = "CR" /\ i < Len(text) /\ text[i + 1] = "NL"
         THEN SplitLinesFrom(text, i + 2, <<>>, Append(acc, cur))
    ELSE IF IsLineBreak(text[i])
         THEN SplitLinesFrom(text, i + 1, <<>>, Append(acc, cur))
    ELSE SplitLinesFrom(text, i + 1, Append(cur, text[i]), acc)

SplitLines(text) == SplitLinesFrom(text, 1, <<>>, <<>>)

\* A variant that drops only the empty lines.
KeepsLineIfNotEmpty(line) == line # <<>>

\* Line 194: the test "if line.strip()".
KeepsLine(line) == Strip(line) # <<>>

\* "\n".join(lines)
RECURSIVE JoinLines(_)
JoinLines(lines) ==
    IF lines = <<>> THEN <<>>
    ELSE IF Len(lines) = 1 THEN lines[1]
    ELSE lines[1] \o <<"NL">> \o JoinLines(Tail(lines))

\* Lines 193-195.
RemoveBlankLines(text) == JoinLines(SelectSeq(SplitLines(text), KeepsLine))

---------------------------------------------------------------------------
(* capture_and_ocr.                                                        *)

Regions == {"BankCode", "BankName", "BranchCode", "BranchName"}
\* The order of the regions dict (lines 100-105) and of the OCR blocks (162-176).
RegionOrder == <<"BankCode", "BankName", "BranchCode", "BranchName">>
CodeRegions == {"BankCode", "BranchCode"}
RequiredKeys == {"Paths/Tesseract", "OCR/WindowTitle", "Paths/OcrOutputFile"}

\* dict.get(key, "")
RawText(results, key) == IF key \in DOMAIN results THEN results[key] ELSE <<>>

\* Lines 179-182.
NormalizedFields(results) ==
    << DigitsOnly(RawText(results, "BankCode")),
       Strip(RawText(results, "BankName")),
       DigitsOnly(RawText(results, "BranchCode")),
       Strip(RawText(results, "BranchName")) >>

\* Lines 178-195, from ocr_results and the [Corrections] section.
Normalize ==
    /\ pc = "normalize"
    /\ fields' = NormalizedFields(ocr_results)
    /\ joined' = JoinFields(fields')
    /\ ocr_text' = ApplyCorrections(joined', corrections)
    /\ final_text' = RemoveBlankLines(ocr_text')
    /\ pc' = "write"
    /\ UNCHANGED <<config_file, config_keys, regions, preprocess_settings, window,
                   grab_result, captured_images, ocr_results, ocr_raised, idx,
                   corrections, output, preVars>>

\* Lines 198-201: the file is written and the text printed.
WriteResult ==
    /\ pc = "write"
    /\ output' = <<final_text>>
    /\ pc' = "done"
    /\ UNCHANGED <<config_file, config_keys, regions, preprocess_settings, window,
                   grab_result, captured_images, ocr_results, ocr_raised, idx,
                   corrections, fields, joined, ocr_text, final_text, preVars>>

---------------------------------------------------------------------------
(* The normalization alone (lines 178-195), over every raw text mapping of  *)
(* at most MaxChars characters and each correction table of NormTables.    *)

MaxChars == 5

CodeChars == {"1", "A", "SP", "SUP2"}
NameChars == {"A", "B", "C", "SP", "NL"}

NoCorrections == <<>>
\* [Corrections]  AB = X  /  XC = Y
ExampleTable == << <<(<<"A", "B">>), <<"X">>>>, <<(<<"X", "C">>), <<"Y">>>> >>
\* [Corrections]  1 = (superscript two)  /  (superscript two, full-width colon) = A
SeqTable == << <<(<<"1">>), <<"SUP2">>>>, <<(<<"SUP2", "FWCOLON">>), <<"A">>>> >>
NormTables == {NoCorrections, ExampleTable, SeqTable}

\* Lines 160-176 and 187: the four raw texts the engine returned and the
\* correction table the configuration holds.
RecognizeTexts ==
    /\ pc = "texts"
    /\ \E n1 \in 0..MaxChars : \E n2 \in 0..(MaxChars - n1) :
       \E n3 \in 0..(MaxChars - n1 - n2) : \E n4 \in 0..(MaxChars - n1 - n2 - n3) :
       \E t1 \in [1..n1 -> CodeChars], t2 \in [1..n2 -> NameChars],
          t3 \in [1..n3 -> CodeChars], t4 \in [1..n4 -> NameChars] :
          ocr_results' = [k \in Regions |->
                             CASE k = "BankCode" -> t1 [] k = "BankName" -> t2
                               [] k = "BranchCode" -> t3 [] OTHER -> t4]
    /\ \E table \in NormTables : corrections' = table
    /\ pc' = "normalize"
    /\ UNCHANGED <<config_file, config_keys, regions, preprocess_settings, window,
                   grab_result, captured_images, ocr_raised, idx,
                   fields, joined, ocr_text, final_text, output, preVars>>

InitNorm ==
    /\ pc = "texts"
    /\ config_file = "present" /\ config_keys = RequiredKeys
    /\ regions = <<>> /\ preprocess_settings = <<>>
    /\ window = "found"
    /\ grab_result = <<>> /\ captured_images = <<>>
    /\ ocr_results = <<>> /\ ocr_raised = {} /\ idx = 0
    /\ corrections = <<>> /\ fields = <<>> /\ joined = <<>>
    /\ ocr_text = <<>> /\ final_text = <<>> /\ output = "none"
    /\ ppc = "idle" /\ h = 0 /\ w = 0
    /\ scaled_w = 0 /\ scaled_h = 0 /\ final_h = 0 /\ final_w = 0

NextNorm ==
    \/ RecognizeTexts
    \/ Normalize

SpecNorm == InitNorm /\ [][NextNorm]_vars

---------------------------------------------------------------------------
(* One run of capture_and_ocr.                                             *)

\* What the run's environment offers: the shape of a grabbed image, the crop
\* settings of a Preprocess<Region> section, the text the engine returns.
RunShape == <<1, 1>>
NoCrop == [top |-> 0, bottom |-> 0, left |-> 0, right |-> 0]
RunCrops == {NoCrop, [NoCrop EXCEPT !.top = 1], [NoCrop EXCEPT !.left = 1]}
EngineText(key) == IF key \in CodeRegions THEN <<"1", "A">> ELSE <<"SP", "B">>
RunTables == {NoCorrections, SeqTable}

\* _preprocess_and_ocr up to line 43 on an image of the given shape:
\* "empty" (line 29 returns ""), "raise" (cv2.resize fails) or "image".
PreprocessOutcome(shape, crop) ==
    LET c == CropShape(shape[1], shape[2], crop)
        f == FinalSize(ScaledH(c[1]), ScaledW(c[1], c[2]))
    IN  IF c[1] = 0 THEN "empty"
        ELSE IF ResizeRaises(f[1], f[2]) THEN "raise"
        ELSE "image"

\* Lines 76-78: without config.ini the run prints an error and returns.
AfterConfigFileCheck(present) == IF present THEN "read_config" ELSE "returned"

CheckConfigFile ==
    /\ pc = "start"
    /\ \E present \in BOOLEAN :
          /\ config_file' = IF present THEN "present" ELSE "missing"
          /\ pc' = AfterConfigFileCheck(present)
    /\ UNCHANGED <<config_keys, regions, preprocess_settings, window, grab_result,
                   captured_images, ocr_results, ocr_raised, idx, textVars, preVars>>

\* Lines 87-97: config.get of a required key that is absent raises
\* (NoSectionError, NoOptionError), which line 206 catches.
ReadConfigFails ==
    /\ pc = "read_config"
    /\ \E keys \in (SUBSET RequiredKeys) \ {RequiredKeys} : config_keys' = keys
    /\ pc' = "failed"
    /\ UNCHANGED <<config_file, regions, preprocess_settings, window, grab_result,
                   captured_images, ocr_results, ocr_raised, idx, textVars, preVars>>

\* Lines 80-125 with every required key present: the region rectangles
\* ("None" for an absent one) and the settings of the sections present.
ReadConfig ==
    /\ pc = "read_config"
    /\ config_keys' = RequiredKeys
    /\ \E r \in [Regions -> {"rect", "None"}] : regions' = r
    /\ \E sections \in SUBSET Regions : \E p \in [sections -> RunCrops] :
          preprocess_settings' = p
    /\ \E table \in RunTables : corrections' = table
    /\ pc' = "find_window"
    /\ UNCHANGED <<config_file, window, grab_result, captured_images, ocr_results,
                   ocr_raised, idx, fields, joined, ocr_text, final_text, output,
                   preVars>>

\* A variant that goes on to the capture without a window.
AfterWindowSearchNoReturn(found) == "capture"

\* Lines 128-139: no window with the title: an error is printed and the run
\* returns. A failed activation is caught at line 138 and changes nothing.
AfterWindowSearch(found) == IF found THEN "capture" ELSE "returned"

FindWindow ==
    /\ pc = "find_window"
    /\ \E found \in BOOLEAN :
          /\ window' = IF found THEN "found" ELSE "none"
          /\ pc' = AfterWindowSearch(found)
    /\ idx' = 1
    /\ grab_result' = [k \in Regions |-> "pending"]
    /\ UNCHANGED <<config_file, config_keys, regions, preprocess_settings,
                   captured_images, ocr_results, ocr_raised, textVars, preVars>>

\* The capture loop moves to the next region, or on to the OCR blocks.
AfterCapture == IF idx = Len(RegionOrder) THEN "ocr" ELSE "capture"
NextIdx == IF idx = Len(RegionOrder) THEN 1 ELSE idx + 1

\* Line 147: a region without a rectangle is passed over.
CaptureSkip ==
    /\ pc = "capture"
    /\ regions[RegionOrder[idx]] = "None"
    /\ grab_result' = [grab_result EXCEPT ![RegionOrder[idx]] = "skipped"]
    /\ pc' = AfterCapture /\ idx' = NextIdx
    /\ UNCHANGED <<config_file, config_keys, regions, preprocess_settings, window,
                   captured_images, ocr_results, ocr_raised, textVars, preVars>>

\* Lines 149-154: the grab returns an image.
CaptureOk ==
    /\ pc = "capture"
    /\ regions[RegionOrder[idx]] = "rect"
    /\ grab_result' = [grab_result EXCEPT ![RegionOrder[idx]] = "ok"]
    /\ captured_images' = (RegionOrder[idx] :> RunShape) @@ captured_images
    /\ pc' = AfterCapture /\ idx' = NextIdx
    /\ UNCHANGED <<config_file, config_keys, regions, preprocess_settings, window,
                   ocr_results, ocr_raised, textVars, preVars>>

\* A variant in which the exception leaves the loop for the handler of line 206.
AfterCaptureRaisesAbort == "failed"

\* Lines 156-157: the rectangle does not parse or the grab raises; the
\* exception is caught inside the loop.
AfterCaptureRaises == AfterCapture

CaptureRaises ==
    /\ pc = "capture"
    /\ regions[RegionOrder[idx]] = "rect"
    /\ grab_result' = [grab_result EXCEPT ![RegionOrder[idx]] = "raised"]
    /\ pc' = AfterCaptureRaises /\ idx' = NextIdx
    /\ UNCHANGED <<config_file, config_keys, regions, preprocess_settings, window,
                   captured_images, ocr_results, ocr_raised, textVars, preVars>>

AfterOcr == IF idx = Len(RegionOrder) THEN "normalize" ELSE "ocr"

\* Lines 162, 166, 170, 174: a region that was not captured has no OCR block run.
OcrSkip ==
    /\ pc = "ocr"
    /\ RegionOrder[idx] \notin DOMAIN captured_images
    /\ pc' = AfterOcr /\ idx' = NextIdx
    /\ UNCHANGED <<config_file, config_keys, regions, preprocess_settings, window,
                   grab_result, captured_images, ocr_results, ocr_raised,
                   textVars, preVars>>

\* Lines 163, 167, 171, 175: preprocess_settings[key] of a captured region whose
\* section is absent raises KeyError; nothing inside the OCR blocks catches it,
\* line 206 does.
OcrNoSettings ==
    /\ pc = "ocr"
    /\ RegionOrder[idx] \in DOMAIN captured_images
    /\ RegionOrder[idx] \notin DOMAIN preprocess_settings
    /\ ocr_raised' = ocr_raised \cup {RegionOrder[idx]}
    /\ pc' = "failed"
    /\ UNCHANGED <<config_file, config_keys, regions, preprocess_settings, window,
                   grab_result, captured_images, ocr_results, idx, textVars, preVars>>

\* Lines 164, 168, 172, 176: _preprocess_and_ocr raises (cv2.resize at line 43,
\* or the engine at line 61); line 204 or 206 catches it.
OcrRaises ==
    /\ pc = "ocr"
    /\ RegionOrder[idx] \in DOMAIN captured_images
    /\ RegionOrder[idx] \in DOMAIN preprocess_settings
    /\ LET outcome == PreprocessOutcome(captured_images[RegionOrder[idx]],
                                        preprocess_settings[RegionOrder[idx]])
       IN  outcome \in {"raise", "image"}
    /\ ocr_raised' = ocr_raised \cup {RegionOrder[idx]}
    /\ pc' = "failed"
    /\ UNCHANGED <<config_file, config_keys, regions, preprocess_settings, window,
                   grab_result, captured_images, ocr_results, idx, textVars, preVars>>

\* Lines 164, 168, 172, 176: _preprocess_and_ocr returns "" (line 29) or the
\* engine's text (line 61).
OcrOk ==
    /\ pc = "ocr"
    /\ RegionOrder[idx] \in DOMAIN captured_images
    /\ RegionOrder[idx] \in DOMAIN preprocess_settings
    /\ LET outcome == PreprocessOutcome(captured_images[RegionOrder[idx]],
                                        preprocess_settings[RegionOrder[idx]])
       IN  /\ outcome \in {"empty", "image"}
           /\ ocr_results' = (RegionOrder[idx] :>
                                 (IF outcome = "empty" THEN <<>>
                                  ELSE EngineText(RegionOrder[idx]))) @@ ocr_results
    /\ pc' = AfterOcr /\ idx' = NextIdx
    /\ UNCHANGED <<config_file, config_keys, regions, preprocess_settings, window,
                   grab_result, captured_images, ocr_raised, textVars, preVars>>

Init ==
    /\ pc = "start"
    /\ config_file = "unknown" /\ config_keys = {}
    /\ regions = <<>> /\ preprocess_settings = <<>>
    /\ window = "unknown"
    /\ grab_result = <<>> /\ captured_images = <<>>
    /\ ocr_results = <<>> /\ ocr_raised = {} /\ idx = 0
    /\ corrections = <<>> /\ fields = <<>> /\ joined = <<>>
    /\ ocr_text = <<>> /\ final_text = <<>> /\ output = "none"
    /\ ppc = "idle" /\ h = 0 /\ w = 0
    /\ scaled_w = 0 /\ scaled_h = 0 /\ final_h = 0 /\ final_w = 0

Next ==
    \/ CheckConfigFile
    \/ ReadConfigFails
    \/ ReadConfig
    \/ FindWindow
    \/ CaptureSkip
    \/ CaptureOk
    \/ CaptureRaises
    \/ OcrSkip
    \/ OcrNoSettings
    \/ OcrRaises
    \/ OcrOk
    \/ Normalize
    \/ WriteResult

Spec == Init /\ [][Next]_vars

---------------------------------------------------------------------------
(* Properties.                                                             *)

\* The text cut at every full-width colon.
RECURSIVE SplitAtColons(_, _, _)
SplitAtColons(text, cur, acc) ==
    IF text = <<>> THEN Append(acc, cur)
    ELSE IF Head(text) = "FWCOLON" THEN SplitAtColons(Tail(text), <<>>, Append(acc, cur))
    ELSE SplitAtColons(Tail(text), Append(cur, Head(text)), acc)

FieldsOf(text) == SplitAtColons(text, <<>>, <<>>)

\* The text cut at every line feed; the empty text has no line.
RECURSIVE CutAtLineFeeds(_, _, _)
CutAtLineFeeds(text, cur, acc) ==
    IF text = <<>> THEN Append(acc, cur)
    ELSE IF Head(text) = "NL" THEN CutAtLineFeeds(Tail(text), <<>>, Append(acc, cur))
    ELSE CutAtLineFeeds(Tail(text), Append(cur, Head(text)), acc)

LinesOf(text) == IF text = <<>> THEN <<>> ELSE CutAtLineFeeds(text, <<>>, <<>>)

Whitespace == {"SP", "NL", "CR", "TAB", "FF"}
HasVisibleChar(line) == \E i \in 1..Len(line) : line[i] \notin Whitespace
HasLineBreak(text) == \E i \in 1..Len(text) : text[i] \in {"NL", "CR", "FF"}

\* The text between its first and its last non-whitespace character.
Trimmed(text) ==
    IF ~HasVisibleChar(text) THEN <<>>
    ELSE LET vis == {i \in 1..Len(text) : text[i] \notin Whitespace}
             first == CHOOSE i \in vis : \A j \in vis : i <= j
             last == CHOOSE i \in vis : \A j \in vis : j <= i
         IN  SubSeq(text, first, last)

IsAsciiDigit(c) == c \in {"0", "1", "2", "3", "4", "5", "6", "7", "8", "9"}
AsciiDigitsOf(text) == SelectSeq(text, IsAsciiDigit)

Normalized == pc \in {"write", "done"}
PosOf(key) == CHOOSE i \in 1..4 : RegionOrder[i] = key

\* C1: with the four regions captured, a preprocess-and-recognize step that
\* raises for one region does not abort the run (the other regions are still
\* recognized and a result line is still written).
C1_RegionFailureDoesNotAbort ==
    (Cardinality(DOMAIN captured_images) = 4 /\ ocr_raised # {}) => pc # "failed"

\* C2: a missing configuration file, a missing required key or a missing window
\* ends the run before any capture: no grab is attempted, no region is captured
\* or recognized, no result text is written or printed.
ConfigKeyMissing ==
    config_file = "present" /\ pc # "read_config" /\ config_keys # RequiredKeys
C2_AbortBeforeCapture ==
    (config_file = "missing" \/ ConfigKeyMissing \/ window = "none")
        => /\ pc \in {"returned", "failed"}
           /\ \A k \in DOMAIN grab_result : grab_result[k] = "pending"
           /\ DOMAIN captured_images = {}
           /\ DOMAIN ocr_results = {}
           /\ output = "none"
C2_Witness == pc = "returned" /\ window = "none" /\ config_keys = RequiredKeys

\* C3 as stated: the image the scaling step produces has height exactly
\* target_h and width at most max_w, clamp or not.
C3_HeightExactlyTarget ==
    ppc = "resized" => final_h = target_h /\ final_w <= max_w
\* C3 amended: the width is at most max_w and the height at most target_h; with
\* no clamp the height is target_h or target_h - 1, with the clamp the width is
\* max_w and the height is below target_h.
C3_SizeWithinLimits ==
    ppc = "resized" =>
        /\ final_w >= 1 /\ final_w <= max_w
        /\ final_h >= 1 /\ final_h <= target_h
        /\ scaled_w <= max_w => final_h \in {target_h - 1, target_h}
        /\ scaled_w > max_w => final_w = max_w /\ final_h < target_h
C3_Witness == ppc = "resized" /\ scaled_w > max_w /\ final_h < target_h

\* C4: _preprocess_and_ocr's preprocessing never raises for a non-null image,
\* whatever its size and crop margins.
C4_PreprocessNeverRaises == ppc # "resize_raised"

\* C5 as stated: the scaled width is w * target_h / h rounded to a nearest
\* integer when that does not exceed max_w, and max_w when it does.
IsNearest(n, num, den) == 2 * n * den - 2 * num <= den /\ 2 * num - 2 * n * den <= den
C5_WidthIsRounded ==
    ppc \in {"scaled", "resized"} =>
        \/ final_w <= max_w /\ IsNearest(final_w, w * target_h, h)
        \/ final_w = max_w /\ 2 * w * target_h >= (2 * max_w + 1) * h
\* C5 amended: the scaled width is w * target_h / h truncated (the quotient's
\* floor, or one less when the quotient is an exact integer that the float
\* product falls short of) when that does not exceed max_w, and max_w when it
\* does.
C5_WidthIsTruncated ==
    ppc \in {"scaled", "resized"} =>
        LET q == (w * target_h) \div h
        IN  /\ scaled_w \in {q - 1, q}
            /\ (w * target_h) % h # 0 => scaled_w = q
            /\ final_w = IF scaled_w > max_w THEN max_w ELSE scaled_w
C5_Witness ==
    ppc = "scaled" /\ 2 * ((w * target_h) % h) > h /\ final_w = (w * target_h) \div h

\* C6: with no corrections and raw texts without line breaks, the result is
\* D(BankCode) : T(BankName) : D(BranchCode) : T(BranchName) joined by the
\* full-width colon, D keeping only the characters 0-9 and T trimming the
\* whitespace at both ends.
C6_AsciiDigitsAndTrim ==
    (Normalized /\ corrections = NoCorrections
        /\ \A k \in DOMAIN ocr_results : ~HasLineBreak(ocr_results[k]))
    => final_text = AsciiDigitsOf(RawText(ocr_results, "BankCode")) \o <<"FWCOLON">>
                    \o Trimmed(RawText(ocr_results, "BankName")) \o <<"FWCOLON">>
                    \o AsciiDigitsOf(RawText(ocr_results, "BranchCode")) \o <<"FWCOLON">>
                    \o Trimmed(RawText(ocr_results, "BranchName"))

\* C7: a region whose grab raised or that has no rectangle is alone without a
\* capture: the failure never aborts the run, the regions whose grab succeeded
\* are captured, and the result line of a finished run with no corrections
\* has the three colons and the empty string in that region's position.
C7_CaptureFailureIsolated ==
    /\ pc = "failed" => (ocr_raised # {} \/ config_keys # RequiredKeys)
    /\ pc \in {"ocr", "normalize", "write", "done"} =>
          DOMAIN captured_images = {k \in Regions : grab_result[k] = "ok"}
    /\ (pc = "done" /\ corrections = NoCorrections) =>
          /\ Len(FieldsOf(final_text)) = 4
          /\ \A k \in Regions :
                grab_result[k] \in {"raised", "skipped"}
                    => FieldsOf(final_text)[PosOf(k)] = <<>>
          /\ output = <<final_text>>
C7_Witness ==
    /\ pc = "done" /\ corrections = NoCorrections
    /\ grab_result["BranchName"] = "raised" /\ grab_result["BankCode"] = "ok"
    /\ grab_result["BranchCode"] = "skipped"
    /\ final_text = <<"1", "FWCOLON", "B", "FWCOLON", "FWCOLON">>

\* C8: the corrections are one sequential pass of literal replacements over
\* the assembled line, each pair used exactly as configured, in order.
C8_PairsAsConfigured ==
    Normalized => ocr_text = ApplyPairs(joined, corrections)

\* C9: the final text has no empty or whitespace-only line, and its lines are
\* the non-blank lines of the corrected text, unchanged and in order.
C9_NoBlankLines ==
    Normalized =>
        /\ \A i \in 1..Len(LinesOf(final_text)) : HasVisibleChar(LinesOf(final_text)[i])
        /\ LinesOf(final_text) = SelectSeq(LinesOf(ocr_text), HasVisibleChar)
C9_Witness ==
    /\ pc = "write" /\ corrections = NoCorrections
    /\ ocr_results["BankName"] = <<"A", "NL", "SP", "NL", "B">>
    /\ final_text = <<"FWCOLON", "A", "NL", "B", "FWCOLON", "FWCOLON">>

\* C10: with no corrections, the final text cut back into its four fields at
\* the colons and normalized again is the same text.
Renormalized(text) ==
    LET f == FieldsOf(text)
        again == [k \in Regions |-> f[PosOf(k)]]
    IN  RemoveBlankLines(ApplyCorrections(JoinFields(NormalizedFields(again)),
                                          NoCorrections))
===========================================================================
